---- MODULE Spec2Model ----
(***************************************************************************)
(* Model of github.com/pierrec/construct: the field tree (internal/structs), *)
(* the name index and the source-merge sequence of config.Load, and the    *)
(* csv record codec used for lists.                                        *)
(*                                                                         *)
(* Strings are sequences of one-character strings, so that lower-casing,   *)
(* joining and splitting are computed and not assumed.                     *)
(***************************************************************************)
EXTENDS Integers, Sequences, FiniteSets, TLC

\* ------------------------------------------------------------------ bounds
MaxArgs == 2        \* longest argument vector given to LoadArgs
MaxList == 2        \* longest list given to csvreadwriter.write
MaxElemLen == 2     \* longest element of such a list

\* ----------------------------------------------------------------- strings
Empty == <<>>

LowerOf == [A |-> "a", G |-> "g", H |-> "h", K |-> "k", P |-> "p", Q |-> "q",
            S |-> "s", T |-> "t", V |-> "v", W |-> "w", X |-> "x"]

lowerChar(c) == IF c \in DOMAIN LowerOf THEN LowerOf[c] ELSE c

\* strings.ToLower
ToLower(s) == [i \in 1..Len(s) |-> lowerChar(s[i])]

\* strings.Join
RECURSIVE Join(_, _)
Join(segs, sep) ==
    IF segs = <<>> THEN Empty
    ELSE IF Len(segs) = 1 THEN segs[1]
    ELSE segs[1] \o sep \o Join(Tail(segs), sep)

\* position of the first occurrence of character c in s at or after i, 0 if none
RECURSIVE IndexFrom(_, _, _)
IndexFrom(s, c, i) ==
    IF i > Len(s) THEN 0
    ELSE IF s[i] = c THEN i
    ELSE IndexFrom(s, c, i + 1)

\* strings.Split(s, sep) for a separator of zero or one character
RECURSIVE Split(_, _)
Split(s, sep) ==
    IF sep = Empty
    THEN [i \in 1..Len(s) |-> <<s[i]>>]
    ELSE LET k == IndexFrom(s, sep[1], 1)
         IN IF k = 0 THEN <<s>>
            ELSE <<SubSeq(s, 1, k - 1)>> \o Split(SubSeq(s, k + 1, Len(s)), sep)

\* ------------------------------------------------------------ declarations
\* A struct type is a sequence of field declarations; a field declaration
\* carries what reflect reports about it.
Leaf(fname, cfg, stag, kind) ==
    [fname |-> fname, cfg |-> cfg, stag |-> stag, kind |-> kind, anon |-> FALSE,
     canset |-> TRUE, tname |-> Empty, ifaces |-> {}, fields |-> <<>>,
     initerr |-> FALSE]

Emb(tname, cfg, ifaces, fields, initerr) ==
    [fname |-> tname, cfg |-> cfg, stag |-> Empty, kind |-> "struct", anon |-> TRUE,
     canset |-> TRUE, tname |-> tname, ifaces |-> ifaces, fields |-> fields,
     initerr |-> initerr]

Unsupported == {"invalid", "complex", "chan", "func", "interface", "unsafeptr"}

\* ------------------------------------------------------------------ errors
Err(kind, name) == [kind |-> kind, name |-> name]
NoErr == Err("nil", Empty)

\* ErrUsageRequested
ErrUsageRequested == Err("flags usage requested", Empty)

\* ------------------------------------------------- internal/structs/set.go
inlineFlag == <<"i", "n", "l", "i", "n", "e">>

\* a tag flag check that accepts every flag
firstUnknownFlag_None(flags, j) == 0

\* the first flag of a cfg tag that is not "inline" (0 if none)
RECURSIVE firstUnknownFlag(_, _)
firstUnknownFlag(flags, j) ==
    IF j > Len(flags) THEN 0
    ELSE IF flags[j] # inlineFlag THEN j
    ELSE firstUnknownFlag(flags, j + 1)

StructStructOf(name, path, inlined, ifaces, initerr, data) ==
    [name |-> name, path |-> path, inlined |-> inlined, ifaces |-> ifaces,
     initerr |-> initerr, data |-> data]

StructFieldOf(name, path, kind, stag, embedded) ==
    [name |-> name, path |-> path, kind |-> kind, stag |-> stag,
     embedded |-> embedded]

\* fieldsOf without the case of the "-" tag: the field keeps its Go name
RECURSIVE fieldsOfFrom_KeepDash(_, _, _, _)
fieldsOfFrom_KeepDash(fs, path, i, acc) ==
    IF i > Len(fs) THEN [err |-> NoErr, res |-> acc]
    ELSE
    LET f == fs[i]
        tagvalues == Split(f.cfg, <<",">>)
        fname == IF tagvalues[1] \in {Empty, <<"-">>} THEN f.fname ELSE tagvalues[1]
        flags == Tail(tagvalues)
        bad == firstUnknownFlag(flags, 1)
        inline == \E j \in 1..Len(flags) : flags[j] = inlineFlag
    IN  IF ~f.canset THEN fieldsOfFrom_KeepDash(fs, path, i + 1, acc)
        ELSE IF bad # 0 THEN [err |-> Err("unknown tag flag", flags[bad]), res |-> <<>>]
        ELSE IF f.kind \in Unsupported THEN fieldsOfFrom_KeepDash(fs, path, i + 1, acc)
        ELSE IF f.kind = "struct" /\ f.tname = Empty
             THEN fieldsOfFrom_KeepDash(fs, path, i + 1, acc)
        ELSE IF f.kind = "struct" /\ f.anon
             THEN LET sub == fieldsOfFrom_KeepDash(f.fields, path \o <<i>>, 1, <<>>)
                  IN IF sub.err # NoErr
                     THEN [err |-> sub.err, res |-> <<>>]
                     ELSE fieldsOfFrom_KeepDash(fs, path, i + 1,
                            Append(acc, StructFieldOf(fname, path \o <<i>>, f.kind, f.stag,
                              <<StructStructOf(fname, path \o <<i>>, inline, f.ifaces,
                                               f.initerr, sub.res)>>)))
        ELSE fieldsOfFrom_KeepDash(fs, path, i + 1,
                 Append(acc, StructFieldOf(fname, path \o <<i>>, f.kind, f.stag, <<>>)))

\* fieldsOf: the fields of the struct declared by fs, which lives at path
RECURSIVE fieldsOfFrom(_, _, _, _)
fieldsOfFrom(fs, path, i, acc) ==
    IF i > Len(fs) THEN [err |-> NoErr, res |-> acc]
    ELSE
    LET f == fs[i]
        tagvalues == Split(f.cfg, <<",">>)
        fname == IF tagvalues[1] = Empty THEN f.fname ELSE tagvalues[1]
        flags == Tail(tagvalues)
        bad == firstUnknownFlag(flags, 1)
        inline == \E j \in 1..Len(flags) : flags[j] = inlineFlag
    IN  IF ~f.canset THEN fieldsOfFrom(fs, path, i + 1, acc)
        ELSE IF tagvalues[1] = <<"-">> THEN fieldsOfFrom(fs, path, i + 1, acc)
        ELSE IF bad # 0 THEN [err |-> Err("unknown tag flag", flags[bad]), res |-> <<>>]
        ELSE IF f.kind \in Unsupported THEN fieldsOfFrom(fs, path, i + 1, acc)
        ELSE IF f.kind = "struct" /\ f.tname = Empty
             THEN fieldsOfFrom(fs, path, i + 1, acc)
        ELSE IF f.kind = "struct" /\ f.anon
             THEN LET sub == fieldsOfFrom(f.fields, path \o <<i>>, 1, <<>>)
                  IN IF sub.err # NoErr
                     THEN [err |-> sub.err, res |-> <<>>]
                     ELSE fieldsOfFrom(fs, path, i + 1,
                            Append(acc, StructFieldOf(fname, path \o <<i>>, f.kind, f.stag,
                              <<StructStructOf(fname, path \o <<i>>, inline, f.ifaces,
                                               f.initerr, sub.res)>>)))
        ELSE fieldsOfFrom(fs, path, i + 1,
                 Append(acc, StructFieldOf(fname, path \o <<i>>, f.kind, f.stag, <<>>)))

fieldsOf(fs, path) == fieldsOfFrom(fs, path, 1, <<>>)

errNoStruct == Err("not a struct", Empty)
errNoPointer == Err("not a pointer", Empty)

\* NewStruct without the checks of the argument's kind
NewStruct_AnyKind(r) ==
    LET fl == fieldsOfFrom(r.fields, <<>>, 1, <<>>)
    IN [err |-> fl.err,
        root |-> [name |-> r.tname, path |-> <<>>, inline |-> FALSE, ifaces |-> r.ifaces,
                  initerr |-> r.initerr, data |-> fl.res]]

\* NewStruct on the config argument r: a value whose kind is a pointer or
\* not, pointing to a struct or to something else
NewStruct(r) ==
    IF ~r.ptr THEN [err |-> errNoPointer, root |-> <<>>]
    ELSE IF r.elem # "struct" THEN [err |-> errNoStruct, root |-> <<>>]
    ELSE LET fl == fieldsOf(r.fields, <<>>)
         IN [err |-> fl.err,
             root |-> StructStructOf(r.tname, <<>>, FALSE, r.ifaces, r.initerr, fl.res)]

isEmbedded(field) == field.embedded # <<>>
Embedded(field) == field.embedded[1]

\* StructStruct.Lookup: <<>> is nil, <<f>> is the field found
RECURSIVE Lookup(_, _)
RECURSIVE lookupOne(_, _, _)
RECURSIVE lookupMany(_, _, _)
lookupOne(data, name, i) ==
    IF i > Len(data) THEN <<>>
    ELSE LET item == data[i]
         IN IF ~isEmbedded(item) \/ ~Embedded(item).inlined
            THEN IF item.name = name THEN <<item>> ELSE lookupOne(data, name, i + 1)
            ELSE LET field == Lookup(Embedded(item), <<name>>)
                 IN IF field # <<>> THEN field ELSE lookupOne(data, name, i + 1)

lookupMany(data, path, i) ==
    IF i > Len(data) THEN <<>>
    ELSE LET item == data[i]
         IN IF ~isEmbedded(item) THEN lookupMany(data, path, i + 1)
            ELSE LET field == IF Embedded(item).inlined THEN Lookup(Embedded(item), path)
                              ELSE IF item.name = path[1]
                                   THEN Lookup(Embedded(item), Tail(path))
                                   ELSE <<>>
                 IN IF field # <<>> THEN field ELSE lookupMany(data, path, i + 1)

Lookup(s, path) ==
    IF Len(path) = 1 THEN lookupOne(s.data, path[1], 1)
    ELSE lookupMany(s.data, path, 1)

\* ------------------------------------------------- internal/structs/csv.go
Quote == "\""
NewLine == "\n"

\* encoding/csv: whether the writer quotes the field
fieldNeedsQuotes(field, comma) ==
    /\ field # Empty
    /\ \/ field = <<"\\", ".">>
       \/ \E i \in 1..Len(field) : field[i] \in {comma, Quote, "\r", NewLine}
       \/ field[1] \in {" ", "\t"}

\* encoding/csv: the field between quotes, its quotes doubled
RECURSIVE quoted(_)
quoted(field) ==
    IF field = Empty THEN Empty
    ELSE (IF field[1] = Quote THEN <<Quote, Quote>> ELSE <<field[1]>>) \o quoted(Tail(field))

writeField(field, comma) ==
    IF fieldNeedsQuotes(field, comma) THEN <<Quote>> \o quoted(field) \o <<Quote>>
    ELSE field

\* csv.Writer.Write followed by Flush: the record and a newline
WriterWrite(record, comma) ==
    Join([i \in 1..Len(record) |-> writeField(record[i], comma)], <<comma>>) \o <<NewLine>>

\* csvreadwriter.write
write(s, sep) ==
    IF Len(s) = 0 THEN Empty
    ELSE IF Len(s) = 1 THEN s[1]
    ELSE LET bts == WriterWrite(s, sep) IN SubSeq(bts, 1, Len(bts) - 1)

\* length of the newline a line ends with
lengthNL(line) == IF line # Empty /\ line[Len(line)] = NewLine THEN 1 ELSE 0

DropFirst(line, n) == SubSeq(line, n + 1, Len(line))

\* csv.Reader.readRecord on one line: the fields, or the parse error
RECURSIVE parseField(_, _, _)
RECURSIVE parseQuoted(_, _, _, _)
parseField(line, comma, fields) ==
    IF line = Empty \/ line[1] # Quote
    THEN LET i == IndexFrom(line, comma, 1)
             field == IF i > 0 THEN SubSeq(line, 1, i - 1)
                      ELSE SubSeq(line, 1, Len(line) - lengthNL(line))
         IN IF IndexFrom(field, Quote, 1) > 0
            THEN [record |-> <<>>, err |-> "bare quote"]
            ELSE IF i > 0 THEN parseField(DropFirst(line, i), comma, Append(fields, field))
            ELSE [record |-> Append(fields, field), err |-> "nil"]
    ELSE parseQuoted(DropFirst(line, 1), comma, fields, Empty)

parseQuoted(line, comma, fields, field) ==
    LET i == IndexFrom(line, Quote, 1)
    IN IF i > 0
       THEN LET after == DropFirst(line, i)
                sofar == field \o SubSeq(line, 1, i - 1)
            IN IF after # Empty /\ after[1] = Quote
               THEN parseQuoted(DropFirst(after, 1), comma, fields, Append(sofar, Quote))
               ELSE IF after # Empty /\ after[1] = comma
               THEN parseField(DropFirst(after, 1), comma, Append(fields, sofar))
               ELSE IF lengthNL(after) = Len(after)
               THEN [record |-> Append(fields, sofar), err |-> "nil"]
               ELSE [record |-> <<>>, err |-> "quote"]
       ELSE [record |-> <<>>, err |-> "quote"]

\* csv.Reader.Read of a reader just created on the buffer
ReaderRead(buf, comma) ==
    IF lengthNL(buf) = Len(buf) THEN [record |-> <<>>, err |-> "EOF"]
    ELSE parseField(buf, comma, <<>>)

\* csvreadwriter.read
read(s, sep) ==
    IF s = Empty THEN [record |-> <<>>, err |-> "nil"]
    ELSE ReaderRead(s, sep)

\* --------------------------------------------------------------- config.go
Ifaces == {"Config", "FromFlags", "FromEnv", "FromIO"}

\* the flags separator of the flags adapter
OptionSeparator == <<"-">>

NoTrans == [k \in {} |-> Empty]

\* config.toName
toName(gsep, section, f) ==
    IF section = Empty THEN f.name ELSE section \o gsep \o f.name

\* toSection that gives an inlined struct a segment like any other
toSection_NoInline(gsep, section, s) ==
    IF section = Empty THEN s.name
    ELSE section \o gsep \o s.name

\* config.toSection
toSection(gsep, section, s) ==
    IF s.inlined THEN section
    ELSE IF section = Empty THEN s.name
    ELSE section \o gsep \o s.name

\* buildKeys that lets a later field take the name of an earlier one
RECURSIVE buildKeysFrom_NoDup(_, _, _, _, _)
buildKeysFrom_NoDup(gsep, fields, section, trans, i) ==
    IF i > Len(fields) THEN [err |-> NoErr, trans |-> trans]
    ELSE LET field == fields[i]
         IN IF isEmbedded(field)
            THEN LET sub == buildKeysFrom_NoDup(gsep, Embedded(field).data,
                                toSection(gsep, section, Embedded(field)), trans, 1)
                 IN buildKeysFrom_NoDup(gsep, fields, section, sub.trans, i + 1)
            ELSE LET name == toName(gsep, section, field)
                     lname == ToLower(name)
                 IN buildKeysFrom_NoDup(gsep, fields, section,
                        [k \in DOMAIN trans \cup {lname} |->
                            IF k = lname THEN name ELSE trans[k]], i + 1)

\* config.buildKeys: fills c.trans, fails on the first duplicate
RECURSIVE buildKeysFrom(_, _, _, _, _)
buildKeysFrom(gsep, fields, section, trans, i) ==
    IF i > Len(fields) THEN [err |-> NoErr, trans |-> trans]
    ELSE LET field == fields[i]
         IN IF isEmbedded(field)
            THEN LET sub == buildKeysFrom(gsep, Embedded(field).data,
                                toSection(gsep, section, Embedded(field)), trans, 1)
                 IN IF sub.err # NoErr THEN sub
                    ELSE buildKeysFrom(gsep, fields, section, sub.trans, i + 1)
            ELSE LET name == toName(gsep, section, field)
                     lname == ToLower(name)
                 IN IF lname \in DOMAIN trans
                    THEN [err |-> Err("duplicate config name", lname), trans |-> trans]
                    ELSE buildKeysFrom(gsep, fields, section,
                                       (lname :> name) @@ trans, i + 1)

buildKeys(gsep, fields, section, trans) == buildKeysFrom(gsep, fields, section, trans, 1)

\* config.fromNameAll
fromNameAll(trans, name, sep) == Split(trans[ToLower(name)], sep)

\* getCommand that finds no subcommand
getCommand_None(field) == <<>>

\* getCommand: <<emb>> when the field embeds a Config that is also FromFlags
getCommand(field) ==
    IF ~isEmbedded(field) THEN <<>>
    ELSE IF "Config" \in Embedded(field).ifaces /\ "FromFlags" \in Embedded(field).ifaces
         THEN <<Embedded(field)>>
         ELSE <<>>

\* callUntil(s, "InitConfig", nil, callInitConfig): the nodes whose hook ran,
\* in order, and whether one of them returned an error
RECURSIVE callUntil(_)
RECURSIVE callUntilFields(_, _, _)
callUntilFields(fields, i, log) ==
    IF i > Len(fields) THEN [log |-> log, hit |-> FALSE]
    ELSE LET field == fields[i]
         IN IF getCommand(field) # <<>> THEN callUntilFields(fields, i + 1, log)
            ELSE IF ~isEmbedded(field) THEN callUntilFields(fields, i + 1, log)
            ELSE IF "Config" \notin Embedded(field).ifaces
                 THEN callUntilFields(fields, i + 1, log)
            ELSE LET r == callUntil(Embedded(field))
                 IN IF r.hit THEN [log |-> log \o r.log, hit |-> TRUE]
                    ELSE callUntilFields(fields, i + 1, log \o r.log)

callUntil(s) ==
    LET ok == "Config" \in s.ifaces
        self == IF ok THEN <<s.path>> ELSE <<>>
    IN IF ok /\ s.initerr THEN [log |-> self, hit |-> TRUE]
       ELSE callUntilFields(s.data, 1, self)


\* ------------------------------------------------------------------ values
\* a native value is an integer or a string
IntV(n) == [k |-> "int", n |-> n, s |-> Empty]
StrV(s) == [k |-> "str", n |-> 0, s |-> s]

\* strconv.ParseInt on the numerals the model uses; anything else is a
\* syntax error
Digits == [i \in 0..9 |-> <<ToString(i)>>]

ParseInt(s) ==
    IF \E n \in 0..9 : Digits[n] = s
    THEN [err |-> NoErr, v |-> CHOOSE n \in 0..9 : Digits[n] = s]
    ELSE [err |-> Err("invalid syntax", s), v |-> 0]

\* fmt.Sprintf("%v", v) of a marshaled value
FormatValue(v) == IF v.k = "int" THEN Digits[v.n] ELSE v.s

\* structs.Set / StructField.Set on a field of the given kind: the value the
\* field holds afterwards, or an error that leaves it as it was
SetValue(kind, old, v) ==
    IF v.k = "str"
    THEN IF kind = "int"
         THEN LET p == ParseInt(v.s)
              IN [err |-> p.err, v |-> IF p.err = NoErr THEN IntV(p.v) ELSE old]
         ELSE [err |-> NoErr, v |-> v]
    ELSE IF kind = "int" THEN [err |-> NoErr, v |-> v]
    ELSE [err |-> Err("cannot convert", Empty), v |-> old]

\* ------------------------------------------- reflect values (set.go, types.go)
\* the types of the fields and of the native values given to Set
Types == {"int", "int8", "uint8", "int16", "uint16", "int64", "Duration", "float64",
          "string", "bool", "[]int", "[]string"}

\* reflect.Type.Kind
KindOf(t) ==
    IF t = "Duration" THEN "int64"
    ELSE IF t \in {"[]int", "[]string"} THEN "slice"
    ELSE t

Signed == {"int", "int8", "int16", "int64"}
Unsigned == {"uint8", "uint16"}
IsInt(k) == k \in Signed \cup Unsigned
IsNum(k) == IsInt(k) \/ k = "float64"

\* a typed value: n is the number held (a float64 holds n halves, a bool 0 or
\* 1), s the string held or the elements of the slice, each as a character
Val(t, n, s) == [t |-> t, n |-> n, s |-> s]
Nil == Val("nil", 0, Empty)

\* reflect.Zero
Zero(t) == Val(t, 0, Empty)

Pow2(w) == IF w = 8 THEN 256 ELSE 65536

\* the bits kept by a store into an integer of the kind: the widths 8 and 16
\* wrap, int and int64 hold every number of the model
Wrap(k, n) ==
    IF k \in {"int", "int64"} THEN n
    ELSE LET w == IF k \in {"int8", "uint8"} THEN 8 ELSE 16
             m == n % Pow2(w)
         IN IF k \in Signed /\ m >= Pow2(w) \div 2 THEN m - Pow2(w) ELSE m

\* whether the integer is in the range of the kind
InRange(k, n) == Wrap(k, n) = n /\ (k \in Unsigned => n >= 0)

\* strconv: the decimal numeral s, with its sign; anything else is a syntax
\* error
RECURSIVE DecValue(_, _)
DecValue(s, acc) ==
    IF s = Empty THEN acc
    ELSE DecValue(Tail(s), 10 * acc + (CHOOSE d \in 0..9 : Digits[d] = <<Head(s)>>))

IsDec(s) == s # Empty /\ \A i \in 1..Len(s) : \E d \in 0..9 : Digits[d] = <<s[i]>>

strconvParseInt(s) ==
    IF IsDec(s) THEN [err |-> NoErr, v |-> DecValue(s, 0)]
    ELSE IF s # Empty /\ Head(s) = "-" /\ IsDec(Tail(s))
    THEN [err |-> NoErr, v |-> 0 - DecValue(Tail(s), 0)]
    ELSE [err |-> Err("invalid syntax", s), v |-> 0]

strconvParseUint(s) ==
    IF IsDec(s) THEN [err |-> NoErr, v |-> DecValue(s, 0)]
    ELSE [err |-> Err("invalid syntax", s), v |-> 0]

errCannotUnmarshal == Err("cannot unmarshal", Empty)
errCannotSet == Err("cannot set", Empty)

\* the outcome of a call on a field: the value it holds afterwards, the
\* error returned, whether a panic escaped
Outcome(cur, e, panicked) == [cur |-> cur, err |-> e, panicked |-> panicked]

\* reflect.Value.SetInt, SetUint: the number is stored truncated to the width
setInt(field, n) == Outcome(Val(field.t, Wrap(KindOf(field.t), n), Empty), NoErr, FALSE)

\* unmarshalValue on the scalar kinds of the model
unmarshalValue(field, s) ==
    LET k == KindOf(field.t)
    IN IF k \in Signed
       THEN LET p == strconvParseInt(s)
            IN IF p.err # NoErr THEN Outcome(field.cur, p.err, FALSE)
               ELSE setInt(field, p.v)
       ELSE IF k \in Unsigned
       THEN LET p == strconvParseUint(s)
            IN IF p.err # NoErr THEN Outcome(field.cur, p.err, FALSE)
               ELSE setInt(field, p.v)
       ELSE IF k = "string" THEN Outcome(Val(field.t, 0, s), NoErr, FALSE)
       ELSE Outcome(field.cur, errCannotUnmarshal, FALSE)

\* reflect.Type.ConvertibleTo between types of different kinds
ConvertibleTo(from, to) ==
    \/ IsNum(KindOf(from)) /\ IsNum(KindOf(to))
    \/ IsInt(KindOf(from)) /\ KindOf(to) = "string"

\* the character of a code point
Rune(n) == "U+" \o ToString(n)

\* reflect.Value.Convert between convertible types of different kinds
Convert(v, t) ==
    IF KindOf(t) = "string" THEN Val(t, 0, <<Rune(v.n)>>)
    ELSE IF KindOf(t) = "float64" THEN Val(t, 2 * v.n, Empty)
    ELSE IF KindOf(v.t) = "float64" THEN Val(t, Wrap(KindOf(t), v.n \div 2), Empty)
    ELSE Val(t, Wrap(KindOf(t), v.n), Empty)

\* convert: a conversion that panics is recovered and returned as an error
convert(v, field) ==
    IF ConvertibleTo(v.t, field.t) THEN Outcome(Convert(v, field.t), NoErr, FALSE)
    ELSE Outcome(field.cur, Err("cannot convert", Empty), FALSE)

\* reflect.Value.Set: a value of another type than the field's panics
valueSet(field, val) ==
    IF val.t = field.t THEN Outcome(val, NoErr, FALSE)
    ELSE Outcome(field.cur, NoErr, TRUE)

\* structs.Set(value, v, seps)
Set(field, v) ==
    IF ~field.canset THEN Outcome(field.cur, errCannotSet, FALSE)
    ELSE IF v = Nil THEN Outcome(Zero(field.t), NoErr, FALSE)
    ELSE IF v.t = "string" THEN unmarshalValue(field, v.s)
    ELSE IF KindOf(field.t) # KindOf(v.t)
    THEN LET c == convert(v, field)
         IN IF c.err # NoErr THEN c ELSE valueSet(field, c.cur)
    ELSE valueSet(field, v)

\* ------------------------------------------------- flags (fromflags.go)
NoFlags == [k \in {} |-> "int"]

\* config.buildFlags: the flags registered in c.fs, by lower-cased name
RECURSIVE buildFlags(_, _, _)
RECURSIVE buildFlagsFields(_, _, _, _)
buildFlagsFields(section, fields, i, fs) ==
    IF i > Len(fields) THEN fs
    ELSE LET field == fields[i]
         IN IF getCommand(field) # <<>> THEN buildFlagsFields(section, fields, i + 1, fs)
            ELSE IF isEmbedded(field)
                 THEN buildFlagsFields(section, fields, i + 1,
                        buildFlags(toSection(OptionSeparator, section, Embedded(field)),
                                   Embedded(field), fs))
            ELSE buildFlagsFields(section, fields, i + 1,
                   (ToLower(toName(OptionSeparator, section, field)) :> field.kind) @@ fs)

buildFlags(section, s, fs) ==
    IF "Config" \notin s.ifaces THEN fs
    ELSE IF "FromFlags" \notin s.ifaces THEN fs
    ELSE buildFlagsFields(section, s.data, 1, fs)

\* command-line arguments: --name=val, a positional word, or a help flag
Long(name, val) == [t |-> "long", name |-> name, val |-> val]
Pos(word) == [t |-> "pos", name |-> word, val |-> Empty]
Help == [t |-> "help", name |-> <<"h">>, val |-> Empty]

\* the argument as the string the process was given
Word(a) ==
    IF a.t = "pos" THEN a.name
    ELSE IF a.t = "help" THEN <<"-">> \o a.name
    ELSE <<"-", "-">> \o a.name \o <<"=">> \o a.val

\* FlagSet.Parse with SetInterspersed(false): flags are read up to the first
\* positional argument; actual holds the flags that were set
RECURSIVE parseFrom(_, _, _, _)
parseFrom(fs, args, i, actual) ==
    IF i > Len(args) THEN [err |-> NoErr, actual |-> actual, rest |-> <<>>]
    ELSE LET a == args[i]
         IN IF a.t = "pos"
            THEN [err |-> NoErr, actual |-> actual, rest |-> SubSeq(args, i, Len(args))]
            ELSE IF a.t = "help"
            THEN [err |-> Err("help", Empty), actual |-> actual, rest |-> <<>>]
            ELSE IF a.name \notin DOMAIN fs
            THEN [err |-> Err("unknown flag", a.name), actual |-> actual, rest |-> <<>>]
            ELSE LET p == SetValue(fs[a.name], IntV(0), StrV(a.val))
                 IN IF p.err # NoErr
                    THEN [err |-> Err("invalid argument", a.name), actual |-> actual,
                          rest |-> <<>>]
                    ELSE parseFrom(fs, args, i + 1, (a.name :> p.v) @@
                            [k \in DOMAIN actual \ {a.name} |-> actual[k]])

NoActual == [k \in {} |-> IntV(0)]

Parse(fs, args) == parseFrom(fs, args, 1, NoActual)

\* ------------------------------------------- store (constructs/store_ini.go)
\* iniStore.keys
iniKeys(keys) ==
    IF Len(keys) = 0 THEN <<Empty, Empty>>
    ELSE IF Len(keys) = 1 THEN <<Empty, keys[1]>>
    ELSE <<keys[1], keys[2]>>

NoIni == [k \in {} |-> Empty]

\* iniStore.Has / Get / Set on the section/key table
storeHas(ini, keys) == iniKeys(keys) \in DOMAIN ini
storeGet(ini, keys) == IF storeHas(ini, keys) THEN ini[iniKeys(keys)] ELSE Empty
storeSet(ini, v, keys) ==
    (iniKeys(keys) :> FormatValue(v)) @@ [k \in DOMAIN ini \ {iniKeys(keys)} |-> ini[k]]

\* ioEncode: every field of root not discarded by the store's tag is Set;
\* st holds the section/key table and the key paths Set so far
RECURSIVE ioEncode(_, _, _, _)
RECURSIVE ioEncodeFields(_, _, _, _, _)
ioEncodeFields(st, keys, fields, v, i) ==
    IF i > Len(fields) THEN st
    ELSE LET field == fields[i]
             ks == Append(keys, field.name)
         IN IF Len(field.stag) > 0 /\ field.stag[1] = "-"
            THEN ioEncodeFields(st, keys, fields, v, i + 1)
            ELSE IF isEmbedded(field)
            THEN ioEncodeFields(
                   ioEncode(st, IF Embedded(field).inlined THEN keys ELSE ks,
                            Embedded(field), v),
                   keys, fields, v, i + 1)
            ELSE ioEncodeFields([ini |-> storeSet(st.ini, v[field.path], ks),
                                 set |-> st.set \cup {ks}],
                                keys, fields, v, i + 1)

ioEncode(st, keys, root, v) == ioEncodeFields(st, keys, root.data, v, 1)

\* ------------------------------------------------------------------ inputs
nXs == <<"X", "s">>
nPo == <<"P", "o">>
nKo == <<"K", "o">>
nGr == <<"G", "r">>
nVo == <<"V", "o">>
nHh == <<"H", "h">>
nQo == <<"Q", "o">>
nSt == <<"S", "t">>
nWo == <<"W", "o">>
nTa == <<"T", "a">>
nAa == <<"A", "a">>
nRo == <<"R", "o">>

tNone == Empty
tSkip == <<"-">>
tBogus == <<",", "b">>
tSkipBogus == <<"-", ",", "b">>
tInline == <<",">> \o inlineFlag
tRenameBogus == <<"g", "g", ",", "b">>

Record(ifaces, initerr, fields) ==
    [tname |-> nRo, ifaces |-> ifaces, initerr |-> initerr, fields |-> fields,
     usage |-> FALSE, ptr |-> TRUE, elem |-> "struct"]

\* the same record, its failing hooks returning ErrUsageRequested
UsageRecord(r) == [r EXCEPT !.usage = TRUE]

\* records exercising tags, names and the three sources
TagRecs ==
    { Record(Ifaces, FALSE,
        << Leaf(nXs, xt, Empty, "int"),
           Leaf(nPo, pt, Empty, "int"),
           Leaf(nKo, Empty, <<"-">>, "int"),
           Leaf(nAa, Empty, Empty, "func"),
           Emb(nGr, gt, {"Config"}, << Leaf(gv, qt, Empty, "int") >>, FALSE) >>) :
        xt \in {tSkip, tSkipBogus},
        pt \in {tNone, <<"p", "o">>},
        gt \in {tNone, tInline, <<"g", "g">>, tBogus, tRenameBogus, tSkip},
        gv \in {nVo, nPo},
        qt \in {tNone, tBogus} }

\* records with two subcommands, one of them holding a group
PlainSubRecs ==
    { Record({"Config", "FromFlags", "FromEnv"}, e0,
        << Leaf(nPo, <<"p", "o">>, Empty, "int"),
           Emb(nSt, st, {"Config", "FromFlags"},
               << Leaf(nWo, <<"w", "o">>, Empty, "int"),
                  Emb(nHh, Empty, {"Config"}, << Leaf(nQo, Empty, Empty, "int") >>, FALSE)
               >>, FALSE),
           Emb(nTa, <<"t", "a">>, {"Config", "FromFlags"},
               << Leaf(nKo, Empty, Empty, "int") >>, e1) >>) :
        st \in {tNone, <<"s", "t">>}, e0 \in BOOLEAN, e1 \in BOOLEAN }

SubRecs == PlainSubRecs

\* the records among them whose own hook fails, asking for the usage
UsageRecs == {UsageRecord(r) : r \in {r \in PlainSubRecs : r.initerr}}

\* records with nested groups whose Init hooks may fail; Aa embeds two
\* Config groups and, their methods being ambiguous, is not a Config itself
InitRecs ==
    { Record({"Config"}, 1 \in bad,
        << Emb(nGr, nt, {"Config"},
               << Leaf(nVo, Empty, Empty, "int"),
                  Emb(nHh, Empty, {"Config"}, << Leaf(nQo, Empty, Empty, "int") >>, 3 \in bad)
               >>, 2 \in bad),
           Leaf(nPo, Empty, Empty, "int"),
           Emb(nAa, Empty, {},
               << Emb(nTa, Empty, {"Config"}, << Leaf(nKo, Empty, Empty, "int") >>,
                      4 \in bad),
                  Emb(nSt, Empty, {"Config"}, << Leaf(nWo, Empty, Empty, "int") >>, FALSE)
               >>, FALSE),
           Emb(nXs, Empty, {"Config"}, << Leaf(nKo, Empty, Empty, "int") >>, 5 \in bad)
        >>) :
        bad \in {b \in SUBSET (1..5) : Cardinality(b) <= 2},
        nt \in {tNone, tInline} }

\* config arguments that are not a pointer to a struct: an integer type with
\* the hooks, a pointer to it, and a struct passed by value
InvalidRecs ==
    { [Record(Ifaces, TRUE, <<>>) EXCEPT !.ptr = FALSE, !.elem = "int"],
      [Record(Ifaces, TRUE, <<>>) EXCEPT !.elem = "int"],
      [Record(Ifaces, TRUE, << Leaf(nPo, Empty, Empty, "int") >>) EXCEPT !.ptr = FALSE] }

\* the record the options are tried on: a field, a group and a field whose
\* name by tag holds the default group separator
nXy == <<"x", "-", "y">>
OptionRecs ==
    { Record({"Config", "FromFlags", "FromEnv"}, FALSE,
        << Leaf(nPo, Empty, Empty, "int"),
           Leaf(nXs, nXy, Empty, "int"),
           Emb(nGr, Empty, {"Config"}, << Leaf(nVo, Empty, Empty, "int") >>, FALSE) >>) }

\* a record kept in a config file, with an embedded subcommand
StoreSubRecs ==
    { Record({"Config", "FromFlags", "FromIO"}, FALSE,
        << Leaf(nPo, Empty, Empty, "int"),
           Emb(nSt, <<"s", "t">>, {"Config", "FromFlags"},
               << Leaf(nWo, Empty, Empty, "int") >>, FALSE) >>) }

\* a record kept in a config file whose reads and writes may fail
FaultRecs == { Record({"Config", "FromIO"}, FALSE, << Leaf(nPo, Empty, Empty, "int") >>) }

\* a record kept in a config file, with a group inside a group
DeepRecs ==
    { Record({"Config", "FromEnv", "FromIO"}, FALSE,
        << Leaf(nPo, Empty, Empty, "int"),
           Emb(nGr, Empty, {"Config"},
               << Leaf(nVo, Empty, Empty, "int"),
                  Emb(nHh, Empty, {"Config"},
                      << Leaf(nQo, Empty, Empty, "int"),
                         Leaf(nXs, Empty, Empty, "int") >>, FALSE)
               >>, FALSE) >>) }

\* the options of a call: "" and nil stand for an option that is not passed
NoOptions == [gsep |-> Empty, envsep |-> Empty, out |-> "nil"]
Options ==
    [gsep : {Empty, <<".">>}, envsep : {Empty, <<"-">>}, out : {"nil", "w"}]

\* every sequence over tokens of length at most n
RECURSIVE SeqsUpTo(_, _)
SeqsUpTo(tokens, n) ==
    IF n = 0 THEN {<<>>}
    ELSE LET shorter == SeqsUpTo(tokens, n - 1)
         IN shorter \cup {Append(q, t) : q \in shorter, t \in tokens}

TagTokens == {Long(<<"p", "o">>, <<"7">>)}
SubTokens == {Long(<<"p", "o">>, <<"7">>), Long(<<"w", "o">>, <<"7">>),
              Pos(<<"s", "t">>), Pos(<<"S", "t">>), Pos(<<"t", "a">>), Help}

\* the leaf declarations of a struct type, by path
RECURSIVE LeafPaths(_, _)
LeafPaths(fs, path) ==
    UNION { IF fs[i].kind = "struct" THEN LeafPaths(fs[i].fields, path \o <<i>>)
            ELSE {path \o <<i>>} : i \in 1..Len(fs) }

\* the i-th field of a struct starts with the value i
InitVals(r) == [q \in LeafPaths(r.fields, <<>>) |-> IntV(q[Len(q)])]

\* the flattened names of the record, as buildKeys records them
AllNames(r) ==
    LET ns == NewStruct(r)
        bk == buildKeys(OptionSeparator, ns.root.data, Empty, NoTrans)
    IN IF ns.err # NoErr \/ bk.err # NoErr THEN {}
       ELSE {bk.trans[k] : k \in DOMAIN bk.trans}

TopNames(r) == {n \in AllNames(r) : IndexFrom(n, "-", 1) = 0}

NoEnv == [n \in {} |-> Empty]
EnvOf(names) == [n \in names |-> <<"8">>]
Envs(r) == {NoEnv, EnvOf(TopNames(r)), EnvOf(AllNames(r))}

FileOf(names) == [exists |-> TRUE, fault |-> "none",
                  ini |-> [k \in {iniKeys(Split(n, OptionSeparator)) : n \in names} |-> <<"9">>]]
NoFile == [exists |-> FALSE, fault |-> "none", ini |-> NoIni]

\* the same file when its decoding, the encoding of a value or the write to
\* the destination fails
Faulty(f, fault) == [f EXCEPT !.fault = fault]
Files(r) == {NoFile, FileOf({}), FileOf(TopNames(r)), FileOf(AllNames(r))}

Scenario(r, a, e, f, s, h) ==
    [rec |-> r, argv |-> a, environ |-> e, file |-> f, saveOn |-> s, help |-> h,
     entry |-> "LoadArgs", options |-> NoOptions]

\* the same scenario entered through Load or LoadArgs with options
Call(sc, entry, options) == [sc EXCEPT !.entry = entry, !.options = options]

Entries == {"Load", "LoadArgs"}

Scenarios ==
    UNION { { Scenario(r, a, e, f, s, FALSE) : a \in SeqsUpTo(TagTokens, MaxArgs),
                e \in Envs(r), f \in Files(r), s \in BOOLEAN } : r \in TagRecs }
    \cup
    UNION { { Scenario(r, a, eh[1], NoFile, FALSE, eh[2]) : a \in SeqsUpTo(SubTokens, MaxArgs),
                eh \in {<<NoEnv, FALSE>>, <<NoEnv, TRUE>>, <<EnvOf(TopNames(r)), FALSE>>} } :
            r \in SubRecs }
    \cup
    { Scenario(r, a, NoEnv, NoFile, FALSE, h) :
        r \in UsageRecs, a \in {<<>>, <<Pos(<<"t", "a">>)>>}, h \in BOOLEAN }
    \cup
    { Scenario(r, <<>>, NoEnv, NoFile, FALSE, h) : r \in InitRecs, h \in BOOLEAN }
    \cup
    UNION { { Scenario(r, a, NoEnv, f, s, FALSE) : a \in {<<>>, <<Pos(<<"s", "t">>)>>},
                f \in {NoFile, FileOf({}), FileOf(AllNames(r))}, s \in BOOLEAN } :
            r \in StoreSubRecs }
    \cup
    UNION { { Scenario(r, <<>>, e, f, s, FALSE) :
                e \in {NoEnv, EnvOf({nPo})},
                f \in {NoFile, FileOf({}), FileOf({nPo}), FileOf(AllNames(r))}, s \in BOOLEAN } :
            r \in DeepRecs }
    \cup
    { Scenario(r, <<>>, NoEnv, Faulty(f, x), s, FALSE) :
        r \in FaultRecs, f \in {NoFile, FileOf({}), FileOf({nPo})},
        x \in {"decode", "encode", "write"}, s \in BOOLEAN }
    \cup
    { Call(Scenario(r, a, e, f, FALSE, FALSE), n, NoOptions) :
        r \in InvalidRecs, a \in {<<>>, <<Long(<<"p", "o">>, <<"7">>)>>},
        e \in {NoEnv, EnvOf({nPo})}, f \in {NoFile, FileOf({nPo})}, n \in Entries }
    \cup
    { Call(Scenario(r, a, e, NoFile, FALSE, FALSE), n, o) :
        r \in OptionRecs, a \in {<<>>, <<Long(<<"p", "o">>, <<"7">>)>>, <<Long(nXy, <<"7">>)>>},
        e \in {NoEnv, EnvOf({nPo, nGr \o <<"-">> \o nVo, nGr \o <<".">> \o nVo})},
        n \in Entries, o \in Options }

\* ------------------------------------------------------------------- state
VARIABLES
    streams,    \* how many streams the FromIO hooks returned and how many were closed
    call,       \* the entry point called, Load or LoadArgs, and its options
    out,        \* c.out
    rec,        \* the struct the config pointer points to
    argv,       \* the arguments of the Load in progress
    environ,    \* the process environment
    file,       \* the config file: whether it exists and its decoded content
    saveOn,     \* ConfigFile.Save
    vals,       \* the value of every leaf field of rec, by path
    pc,         \* the position of the Load in progress
    root,       \* c.root
    trans,      \* c.trans
    gsep,       \* c.gsep
    envsep,     \* c.envsep
    fs,         \* the flags registered in c.fs
    actual,     \* the flags set by Parse, with their values
    rest,       \* c.fs.Args()
    deferred,   \* whether the subcommand dispatch is deferred in this Load
    pending,    \* names still to visit in the loop over c.trans in progress
    store,      \* the Store returned by ioLoad (nil or a section/key table)
    written,    \* what was written to the save destination, if anything
    err,        \* the error config.Load returns
    initLog,    \* the nodes whose InitConfig ran, in order
    envAsked,   \* the names EnvConfig was asked about
    storeKeys,  \* the key paths passed to the store's Has, Get and Set
    doneLog,    \* the calls of FlagsDoneConfig
    chain,      \* the subcommands dispatched so far
    usageShown, \* whether the flags usage was printed
    helpRequested, \* set at start-up when os.Args holds a help flag
    csv,        \* a csvreadwriter with the list written and the list read back
    value       \* a field given to Set or unmarshalValue, the argument, the outcome

loadVars == <<streams, call, out, rec, argv, environ, file, saveOn, vals, pc, root, trans, gsep, envsep, fs,
              actual, rest, deferred, pending, store, written, err, initLog, envAsked,
              storeKeys, doneLog, chain, usageShown, helpRequested>>

vars == <<loadVars, csv, value>>

\* a csvreadwriter for sep, with the list to write
NewCsv(sep, list) ==
    [pc |-> "new", sep |-> sep, list |-> list, text |-> Empty,
     out |-> <<>>, err |-> "nil"]

\* no csvreadwriter in use
NoCsv == [pc |-> "none", sep |-> ",", list |-> <<>>, text |-> Empty,
          out |-> <<>>, err |-> "nil"]

\* a field of the type, settable or not, holding a value, and the argument
NewValue(t, canset, v) ==
    [pc |-> "new", field |-> [t |-> t, canset |-> canset,
                              cur |-> IF t = "string" THEN Val(t, 0, <<"o">>) ELSE Val(t, 1, Empty)],
     v |-> v, out |-> Outcome(Nil, NoErr, FALSE)]

\* no field in use
NoValue == [pc |-> "none", field |-> [t |-> "int", canset |-> FALSE, cur |-> Nil],
            v |-> Nil, out |-> Outcome(Nil, NoErr, FALSE)]

\* no stream obtained yet
NoStreams == [src |-> [opened |-> 0, closed |-> 0], dest |-> [opened |-> 0, closed |-> 0]]

\* ioLoad that closes the stream after a successful decode only
ioLoadStream_NoDefer(st, failed) ==
    [st EXCEPT !.src = [opened |-> @.opened + 1,
                        closed |-> IF failed THEN @.closed ELSE @.closed + 1]]

\* ioLoad on a stream the Load hook returned: defer src.Close()
ioLoadStream(st, failed) ==
    [st EXCEPT !.src = [opened |-> @.opened + 1, closed |-> @.closed + 1]]

\* ioSave on a destination the Write hook returned: defer dest.Close()
ioSaveStream(st, failed) ==
    [st EXCEPT !.dest = [opened |-> @.opened + 1, closed |-> @.closed + 1]]

NilRoot == StructStructOf(Empty, <<>>, FALSE, {}, FALSE, <<>>)
NilStore == [nil |-> TRUE, ini |-> NoIni]
NotWritten == [done |-> FALSE, ini |-> NoIni, comments |-> NoIni]

InitLoad ==
    \E sc \in Scenarios :
        /\ streams = NoStreams
        /\ call = [entry |-> sc.entry, options |-> sc.options, args |-> sc.argv]
        /\ out = "nil"
        /\ rec = sc.rec
        /\ argv = sc.argv
        /\ environ = sc.environ
        /\ file = sc.file
        /\ saveOn = sc.saveOn
        /\ vals = InitVals(sc.rec)
        /\ pc = "start"
        /\ root = NilRoot
        /\ trans = NoTrans
        /\ gsep = Empty
        /\ envsep = Empty
        /\ fs = NoFlags
        /\ actual = NoActual
        /\ rest = <<>>
        /\ deferred = FALSE
        /\ pending = {}
        /\ store = NilStore
        /\ written = NotWritten
        /\ err = NoErr
        /\ initLog = <<>>
        /\ envAsked = {}
        /\ storeKeys = {}
        /\ doneLog = <<>>
        /\ chain = <<>>
        /\ usageShown = FALSE
        /\ helpRequested = sc.help
        /\ csv = NoCsv
        /\ value = NoValue

\* the names a loop over c.trans visits
transNames == {trans[k] : k \in DOMAIN trans}

delete(m, k) == [x \in DOMAIN m \ {k} |-> m[x]]

\* LoadArgs: newConfig, the options, the separators' defaults
LoadArgsWith(options) ==
    /\ pc = "start"
    /\ LET ns == NewStruct(rec)
       IN IF ns.err # NoErr
          THEN /\ err' = ns.err
               /\ pc' = "done"
               /\ UNCHANGED <<root, gsep, envsep, out>>
          ELSE /\ root' = ns.root
               /\ out' = options.out
               /\ gsep' = IF options.gsep = Empty THEN <<"-">> ELSE options.gsep
               /\ envsep' = IF options.envsep = Empty THEN <<"_">> ELSE options.envsep
               /\ pc' = "keys"
               /\ err' = NoErr
    /\ UNCHANGED <<streams, call, rec, argv, environ, file, saveOn, vals, trans, fs, actual, rest,
                   deferred, pending, store, written, initLog, envAsked, storeKeys,
                   doneLog, chain, usageShown, helpRequested, csv, value>>

\* LoadArgs(config, args, options...)
LoadArgs ==
    /\ call.entry = "LoadArgs"
    /\ LoadArgsWith(call.options)

\* Load(config, options...): LoadArgs(config, args) on the process arguments
Load ==
    /\ call.entry = "Load"
    /\ LoadArgsWith(NoOptions)

\* config.Load: buildKeys
BuildKeys ==
    /\ pc = "keys"
    /\ LET bk == buildKeys(gsep, root.data, Empty, trans)
       IN IF bk.err # NoErr
          THEN /\ err' = bk.err
               /\ pc' = "ret"
               /\ trans' = bk.trans
          ELSE /\ trans' = bk.trans
               /\ pc' = IF "FromFlags" \in root.ifaces THEN "flags" ELSE "env"
               /\ err' = NoErr
    /\ UNCHANGED <<streams, call, out, rec, argv, environ, file, saveOn, vals, root, gsep, envsep, fs, actual,
                   rest, deferred, pending, store, written, initLog, envAsked, storeKeys,
                   doneLog, chain, usageShown, helpRequested, csv, value>>

\* config.Load: buildFlags
BuildFlags ==
    /\ pc = "flags"
    /\ fs' = buildFlags(Empty, root, NoFlags)
    /\ pc' = "parse"
    /\ UNCHANGED <<streams, call, out, rec, argv, environ, file, saveOn, vals, root, trans, gsep, envsep,
                   actual, rest, deferred, pending, store, written, err, initLog,
                   envAsked, storeKeys, doneLog, chain, usageShown, helpRequested, csv, value>>

\* config.Load: c.fs.Parse(args); the help flag prints the usage and exits
ParseFlags ==
    /\ pc = "parse"
    /\ LET p == Parse(fs, argv)
       IN IF p.err.kind = "help"
          THEN /\ usageShown' = TRUE
               /\ pc' = "exit"
               /\ UNCHANGED <<actual, rest, err>>
          ELSE IF p.err # NoErr
          THEN /\ err' = p.err
               /\ pc' = "ret"
               /\ UNCHANGED <<actual, rest, usageShown>>
          ELSE /\ actual' = p.actual
               /\ rest' = p.rest
               /\ pc' = "update"
               /\ UNCHANGED <<err, usageShown>>
    /\ UNCHANGED <<streams, call, out, rec, argv, environ, file, saveOn, vals, root, trans, gsep, envsep, fs,
                   deferred, pending, store, written, initLog, envAsked, storeKeys,
                   doneLog, chain, helpRequested, csv, value>>

\* the field a flag name resolves to in updateFlags
flagField(name) == Lookup(root, fromNameAll(trans, name, OptionSeparator))

\* config.updateFlags, then the deferred subcommand dispatch is set up
UpdateFlags ==
    /\ pc = "update"
    /\ IF \E n \in DOMAIN actual : n \notin DOMAIN trans \/ flagField(n) = <<>>
       THEN /\ pc' = "panic"
            /\ UNCHANGED <<vals, trans, deferred>>
       ELSE /\ vals' = [q \in DOMAIN vals |->
                          IF \E n \in DOMAIN actual : flagField(n)[1].path = q
                          THEN LET n == CHOOSE n \in DOMAIN actual : flagField(n)[1].path = q
                               IN SetValue(flagField(n)[1].kind, vals[q], actual[n]).v
                          ELSE vals[q]]
            /\ trans' = [k \in DOMAIN trans \ DOMAIN actual |-> trans[k]]
            /\ deferred' = TRUE
            /\ pc' = "env"
    /\ UNCHANGED <<streams, call, out, rec, argv, environ, file, saveOn, root, gsep, envsep, fs, actual, rest,
                   pending, store, written, err, initLog, envAsked, storeKeys, doneLog,
                   chain, usageShown, helpRequested, csv, value>>


\* FromEnv.EnvConfig as the records of the model implement it
EnvConfig(name) == name

\* config.Load: the environment step starts its loop over c.trans
EnvBegin ==
    /\ pc = "env"
    /\ IF "FromEnv" \in root.ifaces
       THEN pc' = "envloop" /\ pending' = transNames
       ELSE pc' = "io" /\ pending' = {}
    /\ UNCHANGED <<streams, call, out, rec, argv, environ, file, saveOn, vals, root, trans, gsep, envsep, fs,
                   actual, rest, deferred, store, written, err, initLog, envAsked,
                   storeKeys, doneLog, chain, usageShown, helpRequested, csv, value>>

\* the body of the environment loop for one name of c.trans, on the field
\* values and the index the iterations before it left
envField(st, name) ==
    LET envvar == EnvConfig(name)
        names == fromNameAll(st.trans, name, envsep)
        field == Lookup(root, names)
        r == SetValue(field[1].kind, st.vals[field[1].path], StrV(environ[envvar]))
    IN IF envvar = Empty \/ envvar \notin DOMAIN environ THEN st
       ELSE IF field = <<>> THEN [st EXCEPT !.pc = "panic"]
       ELSE IF r.err # NoErr THEN [st EXCEPT !.pc = "ret", !.err = r.err]
       ELSE [st EXCEPT !.vals[field[1].path] = r.v, !.trans = delete(st.trans, name)]

\* one iteration of the environment loop
EnvStep ==
    /\ pc = "envloop"
    /\ \E name \in pending :
         \E st \in {envField([vals |-> vals, trans |-> trans, err |-> err, pc |-> pc], name)} :
            /\ envAsked' = envAsked \cup {name}
            /\ pending' = pending \ {name}
            /\ vals' = st.vals
            /\ trans' = st.trans
            /\ err' = st.err
            /\ pc' = st.pc
    /\ UNCHANGED <<streams, call, out, rec, argv, environ, file, saveOn, root, gsep, envsep, fs, actual, rest,
                   deferred, store, written, initLog, storeKeys, doneLog, chain,
                   usageShown, helpRequested, csv, value>>

\* the environment loop is over
EnvEnd ==
    /\ pc = "envloop"
    /\ pending = {}
    /\ pc' = "io"
    /\ UNCHANGED <<streams, call, out, rec, argv, environ, file, saveOn, vals, root, trans, gsep, envsep, fs,
                   actual, rest, deferred, pending, store, written, err, initLog,
                   envAsked, storeKeys, doneLog, chain, usageShown, helpRequested, csv, value>>

\* config.Load: ioLoad with ConfigFile.Load; a decoded store starts the merge
IoLoad ==
    /\ pc = "io"
    /\ IF "FromIO" \notin root.ifaces
       THEN pc' = "init" /\ UNCHANGED <<store, pending, err, streams>>
       ELSE IF ~file.exists
       THEN IF saveOn
            THEN pc' = "save" /\ store' = NilStore /\ UNCHANGED <<pending, err, streams>>
            ELSE pc' = "ret" /\ err' = Err("open", Empty)
                 /\ UNCHANGED <<store, pending, streams>>
       ELSE IF file.fault = "decode"
       THEN /\ streams' = ioLoadStream(streams, TRUE)
            /\ pc' = "ret" /\ err' = Err("decode", Empty)
            /\ UNCHANGED <<store, pending>>
       ELSE /\ streams' = ioLoadStream(streams, FALSE)
            /\ store' = [nil |-> FALSE, ini |-> file.ini]
            /\ pending' = transNames
            /\ pc' = "merge"
            /\ UNCHANGED err
    /\ UNCHANGED <<call, out, rec, argv, environ, file, saveOn, vals, root, trans, gsep, envsep, fs,
                   actual, rest, deferred, written, initLog, envAsked, storeKeys, doneLog,
                   chain, usageShown, helpRequested, csv, value>>

\* the body of the merge loop for one key path, on the field values and the
\* store the iterations before it left
mergeKeys(st, keys) ==
    LET field == Lookup(root, keys)
        r == SetValue(field[1].kind, st.vals[field[1].path], StrV(storeGet(st.ini, keys)))
    IN IF field = <<>> THEN [st EXCEPT !.pc = "panic"]
       ELSE IF ~storeHas(st.ini, keys)
       THEN [st EXCEPT !.ini = storeSet(st.ini, st.vals[field[1].path], keys)]
       ELSE IF r.err # NoErr THEN [st EXCEPT !.pc = "ret", !.err = r.err]
       ELSE [st EXCEPT !.vals[field[1].path] = r.v]

\* the body of the merge loop for one name of c.trans: keys is computed once
mergeField(st, name) ==
    CHOOSE next \in {mergeKeys(st, keys) : keys \in {fromNameAll(trans, name, gsep)}} : TRUE

\* one iteration of the merge of the file data with the config items
MergeStep ==
    /\ pc = "merge"
    /\ \E name \in pending :
         \E st \in {mergeField([vals |-> vals, ini |-> store.ini, err |-> err, pc |-> pc], name)} :
            /\ pending' = pending \ {name}
            /\ storeKeys' = storeKeys \cup {fromNameAll(trans, name, gsep)}
            /\ vals' = st.vals
            /\ store' = [store EXCEPT !.ini = st.ini]
            /\ err' = st.err
            /\ pc' = st.pc
    /\ UNCHANGED <<streams, call, out, rec, argv, environ, file, saveOn, root, trans, gsep, envsep, fs, actual,
                   rest, deferred, written, initLog, envAsked, doneLog, chain, usageShown,
                   helpRequested, csv, value>>

\* the merge loop is over
MergeEnd ==
    /\ pc = "merge"
    /\ pending = {}
    /\ pc' = "save"
    /\ UNCHANGED <<streams, call, out, rec, argv, environ, file, saveOn, vals, root, trans, gsep, envsep, fs,
                   actual, rest, deferred, pending, store, written, err, initLog,
                   envAsked, storeKeys, doneLog, chain, usageShown, helpRequested, csv, value>>

\* config.ioSave with ConfigFile.Write
IoSave ==
    /\ pc = "save"
    /\ IF ~saveOn
       THEN pc' = "init" /\ UNCHANGED <<store, written, storeKeys, err, streams>>
       ELSE IF file.fault = "encode"
       THEN /\ streams' = ioSaveStream(streams, TRUE)
            /\ pc' = "ret" /\ err' = Err("encode", Empty)
            /\ UNCHANGED <<store, written, storeKeys>>
       ELSE LET enc == ioEncode([ini |-> store.ini, set |-> {}], <<>>, root, vals)
            IN /\ streams' = ioSaveStream(streams, file.fault = "write")
               /\ store' = [nil |-> FALSE, ini |-> enc.ini]
               /\ storeKeys' = storeKeys \cup enc.set
               /\ IF file.fault = "write"
                  THEN pc' = "ret" /\ err' = Err("write", Empty) /\ UNCHANGED written
                  ELSE /\ pc' = "init"
                       /\ written' = [done |-> TRUE, ini |-> enc.ini, comments |-> NoIni]
                       /\ UNCHANGED err
    /\ UNCHANGED <<call, out, rec, argv, environ, file, saveOn, vals, root, trans, gsep, envsep, fs,
                   actual, rest, deferred, pending, initLog, envAsked, doneLog,
                   chain, usageShown, helpRequested, csv, value>>

\* config.init
InitSweep ==
    /\ pc = "init"
    /\ pc' = "ret"
    /\ IF helpRequested
       THEN UNCHANGED <<initLog, err>>
       ELSE LET r == callUntil(root)
            IN /\ initLog' = initLog \o r.log
               /\ err' = IF ~r.hit THEN NoErr
                         ELSE IF rec.usage THEN ErrUsageRequested
                         ELSE Err("init", Empty)
    /\ UNCHANGED <<streams, call, out, rec, argv, environ, file, saveOn, vals, root, trans, gsep, envsep, fs,
                   actual, rest, deferred, pending, store, written, envAsked, storeKeys,
                   doneLog, chain, usageShown, helpRequested, csv, value>>

\* the embedded subcommand the first remaining argument names, if any
subcommandOf(s, args) ==
    IF args = <<>> THEN <<>>
    ELSE LET field == Lookup(s, <<ToLower(Word(args[1]))>>)
         IN IF field = <<>> THEN <<>> ELSE getCommand(field[1])

\* whether LoadArgs answers the error of config.Load with the flags usage
usageRequested(e) == e = ErrUsageRequested /\ "FromFlags" \in rec.ifaces

\* the error LoadArgs returns for the error of config.Load
LoadArgsErr(e) == IF usageRequested(e) THEN NoErr ELSE e

\* config.Load returns with nothing deferred, or with an error; LoadArgs
\* prints the usage when the error is ErrUsageRequested
Return ==
    /\ pc = "ret"
    /\ ~deferred \/ err # NoErr
    /\ pc' = "done"
    /\ usageShown' = (usageShown \/ usageRequested(err))
    /\ UNCHANGED <<streams, call, out, rec, argv, environ, file, saveOn, vals, root, trans, gsep, envsep, fs,
                   actual, rest, deferred, pending, store, written, err, initLog,
                   envAsked, storeKeys, doneLog, chain, helpRequested, csv, value>>

\* a dispatch that also hands the arguments to the hook of the command left
Dispatch_AlsoDone ==
    /\ pc = "ret"
    /\ deferred /\ err = NoErr
    /\ subcommandOf(root, rest) # <<>>
    /\ LET emb == subcommandOf(root, rest)[1]
       IN /\ root' = emb
          /\ chain' = Append(chain, emb.path)
    /\ doneLog' = Append(doneLog, [path |-> root.path, args |-> rest])
    /\ argv' = Tail(rest)
    /\ trans' = NoTrans
    /\ gsep' = Empty
    /\ envsep' = Empty
    /\ fs' = NoFlags
    /\ actual' = NoActual
    /\ rest' = <<>>
    /\ deferred' = FALSE
    /\ out' = "nil"
    /\ pc' = "keys"
    /\ UNCHANGED <<streams, call, rec, environ, file, saveOn, vals, pending, store, written, err, initLog,
                   envAsked, storeKeys, usageShown, helpRequested, csv, value>>

\* a dispatch that hands the subcommand every argument left, its own name included
Dispatch_SameArgs ==
    /\ pc = "ret"
    /\ deferred /\ err = NoErr
    /\ subcommandOf(root, rest) # <<>>
    /\ LET emb == subcommandOf(root, rest)[1]
       IN /\ root' = emb
          /\ chain' = Append(chain, emb.path)
    /\ argv' = rest
    /\ trans' = NoTrans
    /\ gsep' = Empty
    /\ envsep' = Empty
    /\ fs' = NoFlags
    /\ actual' = NoActual
    /\ rest' = <<>>
    /\ deferred' = FALSE
    /\ out' = "nil"
    /\ pc' = "keys"
    /\ UNCHANGED <<streams, call, rec, environ, file, saveOn, vals, pending, store, written, err, initLog,
                   envAsked, storeKeys, doneLog, usageShown, helpRequested, csv, value>>

\* the deferred function finds a subcommand: a new Load runs on it
Dispatch ==
    /\ pc = "ret"
    /\ deferred /\ err = NoErr
    /\ subcommandOf(root, rest) # <<>>
    /\ LET emb == subcommandOf(root, rest)[1]
       IN /\ root' = emb
          /\ chain' = Append(chain, emb.path)
    /\ argv' = Tail(rest)
    /\ trans' = NoTrans
    /\ gsep' = Empty
    /\ envsep' = Empty
    /\ fs' = NoFlags
    /\ actual' = NoActual
    /\ rest' = <<>>
    /\ deferred' = FALSE
    /\ out' = "nil"
    /\ pc' = "keys"
    /\ UNCHANGED <<streams, call, rec, environ, file, saveOn, vals, pending, store, written, err, initLog,
                   envAsked, storeKeys, doneLog, usageShown, helpRequested, csv, value>>

\* a deferred function that calls the hook whatever the error
FlagsDone_IgnoreErr ==
    /\ pc = "ret"
    /\ deferred
    /\ subcommandOf(root, rest) = <<>>
    /\ doneLog' = Append(doneLog, [path |-> root.path, args |-> rest])
    /\ pc' = "done"
    /\ UNCHANGED <<streams, call, out, rec, argv, environ, file, saveOn, vals, root, trans, gsep, envsep, fs,
                   actual, rest, deferred, pending, store, written, err, initLog,
                   envAsked, storeKeys, chain, usageShown, helpRequested, csv, value>>

\* the deferred function finds no subcommand: FlagsDoneConfig gets the arguments
FlagsDone ==
    /\ pc = "ret"
    /\ deferred /\ err = NoErr
    /\ subcommandOf(root, rest) = <<>>
    /\ doneLog' = Append(doneLog, [path |-> root.path, args |-> rest])
    /\ pc' = "done"
    /\ UNCHANGED <<streams, call, out, rec, argv, environ, file, saveOn, vals, root, trans, gsep, envsep, fs,
                   actual, rest, deferred, pending, store, written, err, initLog,
                   envAsked, storeKeys, chain, usageShown, helpRequested, csv, value>>

NextLoad ==
    \/ Load \/ LoadArgs \/ BuildKeys \/ BuildFlags \/ ParseFlags \/ UpdateFlags
    \/ EnvBegin \/ EnvStep \/ EnvEnd
    \/ IoLoad \/ MergeStep \/ MergeEnd \/ IoSave
    \/ InitSweep \/ Return \/ Dispatch \/ FlagsDone

Spec == InitLoad /\ [][NextLoad]_vars

\* Load as a sequential program: a step that can be taken is taken
FairSpec == Spec /\ WF_vars(NextLoad)


\* ------------------------------------------------------ the csv round trip
\* the characters of list elements and the separators tried
Chars == {"a", ",", Quote}
Separators == {",", ";"}

Elements == SeqsUpTo(Chars, MaxElemLen)
Lists == SeqsUpTo(Elements, MaxList)

IdleRecord == Record({}, FALSE, <<>>)

\* newcsvreadwriter(sep), and a list to write
InitCsv ==
    /\ csv \in {NewCsv(sep, list) : sep \in Separators, list \in Lists}
    /\ streams = NoStreams
    /\ call = [entry |-> "LoadArgs", options |-> NoOptions, args |-> <<>>]
    /\ out = "nil"
    /\ rec = IdleRecord
    /\ argv = <<>>
    /\ environ = NoEnv
    /\ file = NoFile
    /\ saveOn = FALSE
    /\ vals = InitVals(IdleRecord)
    /\ pc = "done"
    /\ root = NilRoot
    /\ trans = NoTrans
    /\ gsep = Empty
    /\ envsep = Empty
    /\ fs = NoFlags
    /\ actual = NoActual
    /\ rest = <<>>
    /\ deferred = FALSE
    /\ pending = {}
    /\ store = NilStore
    /\ written = NotWritten
    /\ err = NoErr
    /\ initLog = <<>>
    /\ envAsked = {}
    /\ storeKeys = {}
    /\ doneLog = <<>>
    /\ chain = <<>>
    /\ usageShown = FALSE
    /\ helpRequested = FALSE
    /\ value = NoValue

\* r.write(list...)
CsvWrite ==
    /\ csv.pc = "new"
    /\ csv' = [csv EXCEPT !.pc = "written", !.text = write(csv.list, csv.sep)]
    /\ UNCHANGED <<loadVars, value>>

\* r.read of the string written
CsvRead ==
    /\ csv.pc = "written"
    /\ LET r == read(csv.text, csv.sep)
       IN csv' = [csv EXCEPT !.pc = "read", !.out = r.record, !.err = r.err]
    /\ UNCHANGED <<loadVars, value>>

NextCsv == CsvWrite \/ CsvRead

SpecCsv == InitCsv /\ [][NextCsv]_vars


\* ------------------------------------------- Set and unmarshalValue alone
\* the decimal numeral of the digits
Numeral(ds) == [i \in 1..Len(ds) |-> Digits[ds[i]][1]]

\* the strings given: numerals around the limits of 8 and 16 bits, and two
\* strings that denote no number
Strings ==
    {Numeral(ds) : ds \in {<<0>>, <<7>>, <<1, 2, 7>>, <<1, 2, 8>>, <<2, 5, 5>>, <<2, 5, 6>>,
                           <<3, 0, 0>>, <<3, 2, 7, 6, 7>>, <<3, 2, 7, 6, 8>>,
                           <<6, 5, 5, 3, 5>>, <<6, 5, 5, 3, 6>>}}
    \cup {<<"-">> \o Numeral(ds) : ds \in {<<1>>, <<1, 2, 8>>, <<1, 2, 9>>, <<3, 2, 7, 6, 9>>}}
    \cup {Empty, <<"x">>}

\* the values given to Set: nil, strings, and native values of every type
Natives ==
    {Nil}
    \cup {Val("string", 0, str) : str \in Strings}
    \cup {Val(t, n, Empty) : t \in {"int", "int64", "Duration"}, n \in {0, 3, 300}}
    \cup {Val("float64", n, Empty) : n \in {3, 600}}
    \cup {Val("bool", 1, Empty)}
    \cup {Val("[]int", 0, <<"1">>), Val("[]string", 0, <<"a">>)}

InitSet ==
    /\ value \in {NewValue(t, c, v) : t \in Types, c \in BOOLEAN, v \in Natives}
    /\ csv = NoCsv
    /\ streams = NoStreams
    /\ call = [entry |-> "LoadArgs", options |-> NoOptions, args |-> <<>>]
    /\ out = "nil"
    /\ rec = IdleRecord
    /\ argv = <<>>
    /\ environ = NoEnv
    /\ file = NoFile
    /\ saveOn = FALSE
    /\ vals = InitVals(IdleRecord)
    /\ pc = "done"
    /\ root = NilRoot
    /\ trans = NoTrans
    /\ gsep = Empty
    /\ envsep = Empty
    /\ fs = NoFlags
    /\ actual = NoActual
    /\ rest = <<>>
    /\ deferred = FALSE
    /\ pending = {}
    /\ store = NilStore
    /\ written = NotWritten
    /\ err = NoErr
    /\ initLog = <<>>
    /\ envAsked = {}
    /\ storeKeys = {}
    /\ doneLog = <<>>
    /\ chain = <<>>
    /\ usageShown = FALSE
    /\ helpRequested = FALSE


\* structs.Set(value, v, seps) on the field
CallSet ==
    /\ value.pc = "new"
    /\ value' = [value EXCEPT !.pc = "set", !.out = Set(value.field, value.v)]
    /\ UNCHANGED <<loadVars, csv>>

\* unmarshalValue(value, s) on the field, which the callers know settable
CallUnmarshalValue ==
    /\ value.pc = "new"
    /\ value.field.canset
    /\ value.v.t = "string"
    /\ value' = [value EXCEPT !.pc = "unmarshaled",
                              !.out = unmarshalValue(value.field, value.v.s)]
    /\ UNCHANGED <<loadVars, csv>>

NextSet == CallSet \/ CallUnmarshalValue

SpecSet == InitSet /\ [][NextSet]_vars


\* ---------------------------------------------- the record as it is declared
\* what the cfg tag of a declared field says
tagName(f) == Split(f.cfg, <<",">>)[1]
tagFlags(f) == Tail(Split(f.cfg, <<",">>))
tagInline(f) == \E j \in 1..Len(tagFlags(f)) : tagFlags(f)[j] = inlineFlag
tagUnknown(f) == \E j \in 1..Len(tagFlags(f)) : tagFlags(f)[j] # inlineFlag
extName(f) == IF tagName(f) = Empty THEN f.fname ELSE tagName(f)

\* the declared field is an embedded struct / an embedded subcommand
isGroupDecl(f) == f.kind = "struct" /\ f.anon /\ f.tname # Empty
isCommandDecl(f) == isGroupDecl(f) /\ {"Config", "FromFlags"} \subseteq f.ifaces

\* the declared field belongs to the field tree
inTree(f) ==
    /\ f.canset
    /\ tagName(f) # <<"-">>
    /\ f.kind \notin Unsupported
    /\ ~(f.kind = "struct" /\ f.tname = Empty)

\* the leaf fields of the tree of a declared struct: the names of the
\* enclosing non-inlined groups, the field's name and where it is stored
RECURSIVE DeclLeaves(_, _, _)
DeclLeaves(dfs, path, groups) ==
    UNION { LET f == dfs[i]
            IN IF ~inTree(f) THEN {}
               ELSE IF isGroupDecl(f)
               THEN DeclLeaves(f.fields, path \o <<i>>,
                               IF tagInline(f) THEN groups ELSE Append(groups, extName(f)))
               ELSE {[groups |-> groups, name |-> extName(f), path |-> path \o <<i>>,
                      kind |-> f.kind, stag |-> f.stag]}
          : i \in 1..Len(dfs) }

\* the declaration found at a path
RECURSIVE declNode(_, _)
declNode(dfs, path) ==
    IF Len(path) = 1 THEN dfs[path[1]]
    ELSE declNode(dfs[path[1]].fields, Tail(path))

\* some field tree construction reaches carries a tag flag other than inline
RECURSIVE ReachableUnknownFlag(_)
ReachableUnknownFlag(dfs) ==
    \E i \in 1..Len(dfs) :
        /\ dfs[i].canset
        /\ tagName(dfs[i]) # <<"-">>
        /\ \/ tagUnknown(dfs[i])
           \/ isGroupDecl(dfs[i]) /\ ReachableUnknownFlag(dfs[i].fields)

Flat(l, sep) == Join(Append(l.groups, l.name), sep)

RootLeaves == DeclLeaves(rec.fields, <<>>, <<>>)

Range(q) == {q[i] : i \in 1..Len(q)}

\* ------------------------------------------------------------------ claims
\* the flags given on the command line before the first positional argument
passedFlag(args, lname) ==
    \E i \in 1..Len(args) : /\ args[i].t = "long" /\ args[i].name = lname
                            /\ \A j \in 1..i : args[j].t = "long"

flagValue(args, lname) ==
    LET I == {i \in 1..Len(args) : /\ args[i].t = "long" /\ args[i].name = lname
                                   /\ \A j \in 1..i : args[j].t = "long"}
    IN args[CHOOSE i \in I : \A k \in I : k <= i].val

\* the value the priority order gives a leaf field
C1_Expected(l) ==
    LET name == Flat(l, <<"-">>)
        key == iniKeys(Append(l.groups, l.name))
    IN IF "FromFlags" \in rec.ifaces /\ passedFlag(argv, ToLower(name))
       THEN IntV(ParseInt(flagValue(argv, ToLower(name))).v)
       ELSE IF "FromEnv" \in rec.ifaces /\ EnvConfig(name) \in DOMAIN environ
       THEN IntV(ParseInt(environ[EnvConfig(name)]).v)
       ELSE IF "FromIO" \in rec.ifaces /\ file.exists /\ key \in DOMAIN file.ini
       THEN IntV(ParseInt(file.ini[key]).v)
       ELSE InitVals(rec)[l.path]

\* C1: when Load returns, every leaf field holds the value of its
\* highest-priority source: flag, else environment, else store, else the
\* value it had before Load.
C1_Priority ==
    (pc = "done" /\ err = NoErr /\ chain = <<>>) =>
        \A l \in RootLeaves : vals[l.path] = C1_Expected(l)

\* the embedded subcommands a node lies in (itself included)
CommandAncestors(path) ==
    {SubSeq(path, 1, k) : k \in {k \in 1..Len(path) :
                                   isCommandDecl(declNode(rec.fields, SubSeq(path, 1, k)))}}

IsPrefix(a, b) == Len(a) <= Len(b) /\ SubSeq(b, 1, Len(a)) = a

\* C2: InitConfig never runs on an embedded subcommand, nor on a group inside
\* it, unless the subcommand was dispatched in this Load; of several embedded
\* subcommands at most the selected one is initialized.
C2_SubcommandIsolation ==
    /\ \A i \in 1..Len(initLog) : CommandAncestors(initLog[i]) \subseteq Range(chain)
    /\ \A i, j \in 1..Len(initLog) :
         \A a \in CommandAncestors(initLog[i]), b \in CommandAncestors(initLog[j]) :
            IsPrefix(a, b) \/ IsPrefix(b, a)

\* a subcommand was dispatched and initialized together with the group inside
\* it, and its sibling subcommand was left alone
C2_Witness ==
    /\ pc = "done"
    /\ Len(chain) = 1
    /\ chain[1] \in Range(initLog)
    /\ \E q \in Range(initLog) : Len(q) = 2 /\ IsPrefix(chain[1], q)
    /\ \E i \in 1..Len(rec.fields) :
         /\ isCommandDecl(rec.fields[i])
         /\ <<i>> \notin Range(initLog)


\* the declaration of the struct the Load in progress runs on
rootDecl == IF root.path = <<>> THEN rec ELSE declNode(rec.fields, root.path)

\* the embedded non-subcommand groups that have an Init hook, in declaration
\* order, depth-first pre-order
RECURSIVE C3_Groups(_, _, _)
C3_Groups(dfs, path, i) ==
    IF i > Len(dfs) THEN <<>>
    ELSE LET f == dfs[i]
             here == path \o <<i>>
         IN (IF inTree(f) /\ isGroupDecl(f) /\ ~isCommandDecl(f)
             THEN (IF "Config" \in f.ifaces THEN <<here>> ELSE <<>>)
                  \o C3_Groups(f.fields, here, 1)
             ELSE <<>>)
            \o C3_Groups(dfs, path, i + 1)

C3_Fails(path) == IF path = <<>> THEN rec.initerr ELSE declNode(rec.fields, path).initerr

\* the traversal up to its first failing hook
C3_Swept ==
    LET q == <<root.path>> \o C3_Groups(rootDecl.fields, root.path, 1)
        F == {i \in 1..Len(q) : C3_Fails(q[i])}
    IN IF F = {} THEN q
       ELSE SubSeq(q, 1, CHOOSE i \in F : \A k \in F : i <= k)

\* C3: the Init sweep runs the hook of the root, then of every embedded
\* non-subcommand group in declaration order, depth-first pre-order, stops at
\* the first hook that fails, and Load returns that error.
C3_InitOrder ==
    [][(pc = "init" /\ ~helpRequested) =>
          /\ initLog' = initLog \o C3_Swept
          /\ (err' # NoErr) = (\E i \in 1..Len(C3_Swept) : C3_Fails(C3_Swept[i]))
          /\ err' # NoErr =>
                err' = IF rec.usage THEN ErrUsageRequested ELSE Err("init", Empty)]_vars

\* the lowercase flattened names that two leaf fields of the record share
DupNames ==
    {ToLower(Flat(l, <<"-">>)) : l \in
        {l \in RootLeaves : \E k \in RootLeaves :
            k # l /\ ToLower(Flat(k, <<"-">>)) = ToLower(Flat(l, <<"-">>))}}

\* C4: a record with two leaf fields whose flattened names are equal ignoring
\* case makes Load return a duplicate-name error that names the name, before
\* any flag is registered or parsed, any environment variable is asked for, any
\* store is loaded or saved and any Init hook is invoked.
C4_DuplicateName ==
    (~ReachableUnknownFlag(rec.fields) /\ DupNames # {}) =>
        /\ pc \in {"start", "keys", "ret", "done"}
        /\ pc \in {"ret", "done"} =>
              err.kind = "duplicate config name" /\ err.name \in DupNames
        /\ fs = NoFlags /\ actual = NoActual /\ ~usageShown
        /\ envAsked = {}
        /\ store = NilStore /\ storeKeys = {} /\ ~written.done
        /\ initLog = <<>> /\ doneLog = <<>> /\ chain = <<>>
        /\ vals = InitVals(rec)

\* Load has returned the duplicate-name error of a record with two such fields
C4_Witness ==
    /\ pc = "done"
    /\ DupNames # {}
    /\ err.kind = "duplicate config name"
    /\ err.name \in DupNames


\* C5: for every separator and every list of strings, of any length and with
\* elements that may hold the separator, read of the string that write
\* produced returns the elements written.
C5_RoundTrip ==
    csv.pc = "read" => csv.err = "nil" /\ csv.out = csv.list


\* the leaf fields of the struct the Load in progress runs on
CurrentLeaves == DeclLeaves(rootDecl.fields, root.path, <<>>)

\* C6: the name index built for a record maps, for every leaf field, the
\* lowercase of its flattened name to that name: the names of the enclosing
\* non-inlined groups, outermost first, then the field's name, joined by the
\* group separator; an inlined group adds no segment.
C6_FlattenedNames ==
    [][(pc = "keys" /\ pc' # "ret") =>
          /\ DOMAIN trans' = {ToLower(Flat(l, gsep)) : l \in CurrentLeaves}
          /\ \A l \in CurrentLeaves : trans'[ToLower(Flat(l, gsep))] = Flat(l, gsep)]_vars

\* the index holds the name of a field of an inlined group, without a
\* segment for the group, and a name with two group segments
C6_Witness ==
    /\ pc \in {"flags", "env"}
    /\ root.path = <<>>
    /\ \E l \in RootLeaves :
         /\ Len(l.path) = 2 /\ l.groups = <<>>
         /\ ToLower(l.name) \in DOMAIN trans /\ trans[ToLower(l.name)] = l.name
    /\ \E l \in RootLeaves :
         /\ Len(l.groups) = 1
         /\ ToLower(Flat(l, gsep)) \in DOMAIN trans

\* the leaf fields the record would have below its fields tagged "-", under
\* the names they would have without that tag
RECURSIVE C7_Skipped(_, _, _, _)
C7_Skipped(dfs, path, groups, skipped) ==
    UNION { LET f == dfs[i]
                sk == skipped \/ tagName(f) = <<"-">>
                nm == IF tagName(f) \in {Empty, <<"-">>} THEN f.fname ELSE tagName(f)
            IN IF ~f.canset \/ f.kind \in Unsupported THEN {}
               ELSE IF isGroupDecl(f)
               THEN C7_Skipped(f.fields, path \o <<i>>,
                               IF tagInline(f) THEN groups ELSE Append(groups, nm), sk)
               ELSE IF sk THEN {[groups |-> groups, name |-> nm, path |-> path \o <<i>>]}
               ELSE {}
          : i \in 1..Len(dfs) }

\* C7: a field whose cfg tag starts with "-" is not in the field tree: no
\* flag is registered for it, EnvConfig is never asked about it, no store key
\* is read or written for it, and Load leaves its value alone.
C7_DashExcluded ==
    \A l \in C7_Skipped(rec.fields, <<>>, <<>>, FALSE) :
        /\ ToLower(Flat(l, OptionSeparator)) \notin DOMAIN fs
        /\ ToLower(Flat(l, OptionSeparator)) \notin DOMAIN actual
        /\ ToLower(Flat(l, <<"-">>)) \notin DOMAIN trans
        /\ Flat(l, <<"-">>) \notin envAsked
        /\ Append(l.groups, l.name) \notin storeKeys
        /\ iniKeys(Append(l.groups, l.name)) \notin DOMAIN store.ini \cup DOMAIN written.ini
        /\ vals[l.path] = InitVals(rec)[l.path]

\* a Load that registered flags, asked for environment variables, merged and
\* saved the store and returned, on a record with a field tagged "-"
C7_Witness ==
    /\ pc = "done" /\ err = NoErr
    /\ C7_Skipped(rec.fields, <<>>, <<>>, FALSE) # {}
    /\ fs # NoFlags
    /\ envAsked # {}
    /\ storeKeys # {}
    /\ written.done /\ written.ini # NoIni

\* some settable field, at any depth of embedded structs, has a tag flag
\* other than inline
RECURSIVE AnyUnknownFlag(_)
AnyUnknownFlag(dfs) ==
    \E i \in 1..Len(dfs) :
        /\ dfs[i].canset
        /\ \/ tagUnknown(dfs[i])
           \/ isGroupDecl(dfs[i]) /\ AnyUnknownFlag(dfs[i].fields)

\* C8 as stated: a settable field with an unknown tag flag fails tree
\* construction whatever the first segment of the tag.
C8_AnyNameSegment ==
    AnyUnknownFlag(rec.fields) =>
        /\ pc \in {"start", "done"}
        /\ pc = "done" => err.kind = "unknown tag flag"

\* C8: a settable field with a tag flag other than inline, whose tag does not
\* start with "-" and that no enclosing embedded struct tagged "-" or
\* unsettable hides, makes tree construction fail with an unknown-tag-flag
\* error, on every run, before anything else is done.
C8_UnknownTagFlag ==
    ReachableUnknownFlag(rec.fields) =>
        /\ pc \in {"start", "done"}
        /\ pc = "done" => err.kind = "unknown tag flag"
        /\ root = NilRoot /\ trans = NoTrans /\ fs = NoFlags
        /\ envAsked = {} /\ storeKeys = {} /\ initLog = <<>>
        /\ vals = InitVals(rec)

\* Load has returned the unknown-tag-flag error
C8_Witness ==
    /\ pc = "done"
    /\ ReachableUnknownFlag(rec.fields)
    /\ err.kind = "unknown tag flag"

\* C9: when the file does not exist and saving is enabled, Load returns no
\* error and the store written holds, for every leaf field of the tree, the
\* field's marshaled value and its non-empty usage comment.
C9_FirstRunFile ==
    [][(pc = "save" /\ ~file.exists /\ saveOn /\ chain = <<>>) =>
          /\ err' = NoErr
          /\ written'.done
          /\ \A l \in RootLeaves :
               LET key == iniKeys(Append(l.groups, l.name))
               IN /\ key \in DOMAIN written'.ini
                  /\ written'.ini[key] = FormatValue(vals[l.path])
                  /\ key \in DOMAIN written'.comments
                  /\ written'.comments[key] # Empty]_vars

\* C10: after flag parsing, a first remaining argument equal, ignoring case,
\* to the name of a direct embedded child that is a subcommand selects that
\* child, and a new Load runs on it with the arguments that follow.
C10_CaseInsensitiveSubcommand ==
    [][(/\ pc = "ret" /\ deferred /\ err = NoErr
        /\ rest # <<>>)
       => \A i \in 1..Len(rootDecl.fields) :
            LET f == rootDecl.fields[i]
            IN (/\ inTree(f) /\ isCommandDecl(f)
                /\ ToLower(extName(f)) = ToLower(Word(rest[1])))
               => /\ chain' = Append(chain, root.path \o <<i>>)
                  /\ root'.path = root.path \o <<i>>
                  /\ argv' = Tail(rest)
                  /\ pc' = "keys"]_vars


\* the arguments a command's flag parsing leaves: those from the first
\* positional argument on
RECURSIVE C11_Unconsumed(_)
C11_Unconsumed(args) ==
    IF args = <<>> THEN <<>>
    ELSE IF args[1].t = "long" THEN C11_Unconsumed(Tail(args))
    ELSE args

\* C11: a Load of a flag-capable record in which no step fails calls
\* FlagsDoneConfig exactly once, on the last command of the dispatch chain
\* (the root when there is none), with the arguments that command's flag
\* parsing left; no earlier command of the chain gets the call.
C11_FlagsDoneOnce ==
    (pc = "done" /\ err = NoErr /\ "FromFlags" \in rec.ifaces) =>
        /\ Len(doneLog) = 1
        /\ doneLog[1].path = IF chain = <<>> THEN <<>> ELSE chain[Len(chain)]
        /\ doneLog[1].args = C11_Unconsumed(argv)

\* a subcommand was dispatched and its hook got the argument left after it
C11_Witness ==
    /\ pc = "done" /\ err = NoErr
    /\ Len(chain) = 1
    /\ Len(doneLog) = 1
    /\ doneLog[1].path = chain[1]
    /\ doneLog[1].args # <<>>


\* the leaf field the environment loop handles in a step
C12_Handled == {l \in CurrentLeaves : Flat(l, gsep) \in pending \ pending'}

\* C12: for every outstanding leaf field, nested in groups or not, the
\* environment step asks EnvConfig for a variable name; an empty name or an
\* unset variable leaves the field alone, a set variable is parsed and
\* assigned to that field, and resolving the field neither fails nor panics.
C12_EnvNested ==
    [][pc = "envloop" =>
          /\ pc' # "panic"
          /\ \A l \in C12_Handled :
               /\ Flat(l, gsep) \in envAsked'
               /\ vals'[l.path] =
                    IF EnvConfig(Flat(l, gsep)) = Empty
                       \/ EnvConfig(Flat(l, gsep)) \notin DOMAIN environ
                    THEN vals[l.path]
                    ELSE IntV(ParseInt(environ[EnvConfig(Flat(l, gsep))]).v)]_vars


\* C13: once a step of config.Load has returned an error, Load returns that
\* error and nothing else runs: no later source is applied, no subcommand is
\* dispatched, FlagsDoneConfig is not called, nothing is written to the save
\* destination and no InitConfig runs.
C13_FirstErrorReturned ==
    [][err # NoErr =>
          /\ pc = "ret" /\ pc' = "done"
          /\ err' = err
          /\ UNCHANGED <<vals, root, trans, fs, actual, rest, store, written, initLog,
                         envAsked, storeKeys, doneLog, chain, argv>>]_vars

\* Load has returned the error of the store load step of a flag-capable
\* record: the hook was not called, nothing was written, no InitConfig ran
C13_Witness ==
    /\ pc = "done"
    /\ err.kind = "open"
    /\ deferred
    /\ doneLog = <<>> /\ initLog = <<>> /\ ~written.done


\* C14: a config argument that is not a pointer, or points to something that
\* is not a struct, makes Load and LoadArgs return the error of NewStruct at
\* once: no flag is parsed, no environment variable or store key is asked
\* for, no file is written, no value is set and no hook is called.
C14_InvalidConfig ==
    ((~rec.ptr \/ rec.elem # "struct") /\ pc # "start") =>
        /\ pc = "done"
        /\ err = IF ~rec.ptr THEN errNoPointer ELSE errNoStruct
        /\ LoadArgsErr(err) = err
        /\ root = NilRoot /\ trans = NoTrans /\ fs = NoFlags /\ actual = NoActual
        /\ envAsked = {} /\ storeKeys = {} /\ store = NilStore /\ ~written.done
        /\ vals = InitVals(rec)
        /\ initLog = <<>> /\ doneLog = <<>> /\ chain = <<>> /\ ~usageShown

\* Load has returned for a struct passed by value, with a flag on the
\* command line, a variable in the environment and a config file at hand
C14_Witness ==
    /\ pc = "done"
    /\ ~rec.ptr /\ rec.elem = "struct"
    /\ call.entry = "Load"
    /\ argv # <<>> /\ environ # NoEnv /\ file.exists
    /\ err = errNoPointer

\* C15: Load with options behaves as LoadArgs with the same options: in the
\* top-level Load the group separator, the environment separator and the
\* usage writer are those of the options passed, an option that is not
\* passed giving '-', '_' and the nil writer.
C15_LoadAppliesOptions ==
    (pc # "start" /\ root # NilRoot /\ chain = <<>>) =>
        /\ gsep = IF call.options.gsep = Empty THEN <<"-">> ELSE call.options.gsep
        /\ envsep = IF call.options.envsep = Empty THEN <<"_">> ELSE call.options.envsep
        /\ out = call.options.out

\* C16: in a Load whose arguments hold a help flag, no InitConfig is called
\* on any node, and when the Load is over without an error the usage has
\* been printed.
C16_HelpSkipsInit ==
    (\E i \in 1..Len(argv) : argv[i] = Help) =>
        /\ initLog = <<>>
        /\ (pc \in {"done", "exit"} /\ err = NoErr) => usageShown

\* C17: a leaf field whose tag under the store's data-format name is "-"
\* never gets a key written into the store: neither the store in memory nor
\* the saved file holds a key for it that the decoded file did not hold.
C17_StoreTagDash ==
    \A l \in {l \in RootLeaves : Len(l.stag) > 0 /\ l.stag[1] = "-"} :
        iniKeys(Append(l.groups, l.name)) \in DOMAIN store.ini \cup DOMAIN written.ini
            => iniKeys(Append(l.groups, l.name)) \in DOMAIN file.ini

\* the leaf field the merge loop handles in a step, and its key in the store
C18_Handled == {l \in CurrentLeaves : Flat(l, gsep) \in pending \ pending'}
C18_Key(l) == iniKeys(Append(l.groups, l.name))

\* the first two parts of C18: a key the store lacks is set to the field's
\* current value and the field is unchanged; a key the store has gives the
\* field its value, normalised
C18_Merged(l) ==
    IF C18_Key(l) \notin DOMAIN store.ini
    THEN /\ C18_Key(l) \in DOMAIN store'.ini
         /\ store'.ini[C18_Key(l)] = FormatValue(vals[l.path])
         /\ vals' = vals
    ELSE /\ vals'[l.path] = IntV(ParseInt(store.ini[C18_Key(l)]).v)
         /\ store' = store

\* C18: in the merge of a decoded store, for every outstanding leaf field:
\* when the store has no value at the field's key path the field's value is
\* written there and the field is unchanged; otherwise the store's value,
\* normalised, is assigned to the field and the field's name is removed from
\* the outstanding set.
C18_MergeStep ==
    [][pc = "merge" =>
          /\ pc' # "panic"
          /\ \A l \in C18_Handled :
               /\ C18_Merged(l)
               /\ C18_Key(l) \in DOMAIN store.ini
                    => ToLower(Flat(l, gsep)) \notin DOMAIN trans']_vars

\* C19: once the name index of a record is built without a duplicate, the
\* entry of every leaf field f, split on the separator that built it and
\* looked up from the root, gives f itself: not nil, not another field and
\* not a group, whatever the names.
C19_NameRoundTrip ==
    (pc \notin {"start", "keys"} /\ root # NilRoot
        /\ err.kind # "duplicate config name") =>
        \A l \in CurrentLeaves :
            ToLower(Flat(l, gsep)) \in DOMAIN trans =>
                LET f == Lookup(root, fromNameAll(trans, Flat(l, gsep), gsep))
                IN /\ f # <<>>
                   /\ f[1].path = l.path
                   /\ ~isEmbedded(f[1])

\* the leaf fields of the record that belong to an embedded subcommand
C20_CommandLeaves == {l \in RootLeaves : CommandAncestors(l.path) # {}}

\* C20: the store step of the enclosing record leaves the leaf fields of its
\* embedded subcommands out: it assigns none of them, sets no key for them
\* in the store and writes none to the save destination, for a decoded
\* store and for a store created for saving.
C20_SubcommandNotStored ==
    [][(pc \in {"merge", "save"} /\ chain = <<>>) =>
          \A l \in C20_CommandLeaves :
              /\ vals'[l.path] = vals[l.path]
              /\ iniKeys(Append(l.groups, l.name)) \in DOMAIN store'.ini
                    => iniKeys(Append(l.groups, l.name)) \in DOMAIN store.ini
              /\ iniKeys(Append(l.groups, l.name)) \in DOMAIN written'.ini
                    => iniKeys(Append(l.groups, l.name)) \in DOMAIN file.ini]_vars

\* C21: Set on a settable field with a native value that is neither nil nor
\* a string either assigns the value, converted to the field's type, or
\* returns an error and leaves the field as it was; no panic escapes.
C21_SetNeverPanics ==
    (value.pc = "set" /\ value.field.canset /\ value.v # Nil /\ value.v.t # "string") =>
        /\ ~value.out.panicked
        /\ \/ /\ value.out.err = NoErr
              /\ value.out.cur = IF value.v.t = value.field.t THEN value.v
                                 ELSE Convert(value.v, value.field.t)
           \/ /\ value.out.err # NoErr
              /\ value.out.cur = value.field.cur

\* C30: unmarshaling a string into a signed or unsigned integer field of
\* 8 or 16 bits either stores exactly the integer the string denotes or
\* returns an error and leaves the field as it was: a number out of the
\* range of the field's type is never stored wrapped.
C30_NoWrap ==
    (value.pc = "unmarshaled" /\ IsInt(KindOf(value.field.t))) =>
        \/ /\ value.out.err = NoErr
           /\ strconvParseInt(value.v.s).err = NoErr
           /\ value.out.cur = Val(value.field.t, strconvParseInt(value.v.s).v, Empty)
        \/ /\ value.out.err # NoErr
           /\ value.out.cur = value.field.cur

\* C22: the flag set built for a flag-capable record holds exactly one flag
\* for every leaf field outside the subcommands, the leaves of nested groups
\* at any depth included, named by the lower-cased flattened name, and no
\* flag for the leaf field of a subcommand.
C22_NestedFlags ==
    (pc \notin {"start", "keys", "flags"} /\ chain = <<>> /\ root # NilRoot
        /\ "FromFlags" \in root.ifaces /\ err.kind # "duplicate config name") =>
        DOMAIN fs = {ToLower(Flat(l, OptionSeparator)) : l \in RootLeaves \ C20_CommandLeaves}


\* C23: when Load has returned, every stream the Load hook returned and every
\* destination the Write hook returned has been closed exactly once, on the
\* error paths as on the successful one
C23_StreamsClosed ==
    pc \in {"ret", "done"} =>
        /\ streams.src.closed = streams.src.opened
        /\ streams.dest.closed = streams.dest.opened

\* a Load whose decoding failed after the stream was obtained
C23_Witness ==
    pc = "done" /\ err.kind = "decode" /\ streams.src.opened = 1 /\ streams.src.closed = 1

\* a Load that read its file and then failed to write it back
C23_SaveWitness ==
    pc = "done" /\ err.kind = "write" /\ streams.src.opened = 1 /\ streams.dest.closed = 1

\* C27: subcommand dispatch terminates. Each nested Load is given strictly
\* fewer arguments than the Load that dispatched it, the number of nested
\* Loads stays within the number of arguments plus one, and the call ends
\* (it returns, or the process stops in a panic or in the exit of the flag package).
C27_DispatchTerminates ==
    /\ [][(Len(chain') > Len(chain)) => (Len(argv') < Len(argv))]_vars
    /\ [](Len(chain) + 1 + Len(argv) <= Len(call.args) + 1)
    /\ <>(pc \in {"done", "panic", "exit"})

\* a Load given two arguments has dispatched to a subcommand and returned
C27_Witness ==
    pc = "done" /\ Len(chain) = 1 /\ Len(call.args) = 2 /\ doneLog # <<>> /\ err = NoErr

\* C28: whether the Init sweep runs is determined by the record and the
\* arguments alone. The command line of the process is read by config.init
\* only, so two calls that differ in it alone are in the same state when they
\* reach config.init; there the sweep calls the hooks of the record whatever
\* the command line of the process held.
C28_SweepByArgsAlone ==
    [][pc = "init" => initLog' = initLog \o callUntil(root).log]_vars

\* C29: in the INI store the key paths of two different names of the index
\* never address the same entry: Set on the path of one leaves what Has and
\* Get return for the path of the other.
C29_DistinctEntries ==
    pc = "merge" =>
        \A n1 \in transNames : \A n2 \in transNames \ {n1} :
            LET k1 == fromNameAll(trans, n1, gsep)
                k2 == fromNameAll(trans, n2, gsep)
                after == storeSet(store.ini, IntV(0), k1)
            IN /\ storeHas(after, k2) = storeHas(store.ini, k2)
               /\ storeGet(after, k2) = storeGet(store.ini, k2)

\* the names a flag or an environment variable may give the leaf: its path
\* from the record or from an embedded subcommand, joined by a separator
C24_Names(l) ==
    LET full == Append(l.groups, l.name)
    IN {Join(SubSeq(full, k, Len(full)), sep) : k \in 1..Len(full), sep \in {<<"-">>, <<".">>, <<"_">>}}

\* a source supplies a value for the leaf: a flag of the call names it, a
\* variable of the environment names it, or the decoded file holds its key
C24_Supplied(l) ==
    \/ \E i \in 1..Len(call.args) :
          call.args[i].t = "long" /\ call.args[i].name \in {ToLower(n) : n \in C24_Names(l)}
    \/ \E n \in C24_Names(l) : EnvConfig(n) \in DOMAIN environ
    \/ file.exists /\ iniKeys(Append(l.groups, l.name)) \in DOMAIN file.ini

\* C24: Load leaves unchanged every leaf field for which no source supplies
\* a value: no flag passed for it, no variable of the environment set for it,
\* and the store absent or without its key. (No Init hook of the model
\* modifies a field.)
C24_Frame ==
    \A l \in RootLeaves : ~C24_Supplied(l) => vals[l.path] = InitVals(rec)[l.path]

\* C25: when Load has written the store and returned, the written store
\* holds, for every leaf field not excluded by the store's tag, the value the
\* field has after the flag, environment and file overrides. The leaves are
\* those of the record outside its embedded subcommands.
C25_WrittenFinal ==
    (pc = "done" /\ written.done /\ err = NoErr) =>
        \A l \in {l \in RootLeaves \ C20_CommandLeaves : ~(Len(l.stag) > 0 /\ l.stag[1] = "-")} :
            LET key == iniKeys(Append(l.groups, l.name))
            IN /\ key \in DOMAIN written.ini
               /\ written.ini[key] = FormatValue(vals[l.path])

\* the environment loop and the merge loop run to their end over the names
\* outstanding, in one fixed order
RECURSIVE C26_EnvRest(_, _)
C26_EnvRest(st, names) ==
    IF names = {} \/ st.pc # "envloop" THEN st
    ELSE CHOOSE r \in {C26_EnvRest(next[1], next[2]) :
                        next \in {<<envField(st, n), names \ {n}>> :
                                    n \in {CHOOSE n \in names : TRUE}}} : TRUE

RECURSIVE C26_MergeRest(_, _)
C26_MergeRest(st, names) ==
    IF names = {} \/ st.pc # "merge" THEN st
    ELSE CHOOSE r \in {C26_MergeRest(next[1], next[2]) :
                        next \in {<<mergeField(st, n), names \ {n}>> :
                                    n \in {CHOOSE n \in names : TRUE}}} : TRUE

\* where the loop in progress ends from the given values, index, store and names
C26_Outcome(p, v, t, ini, e, names) ==
    IF p = "envloop"
    THEN C26_EnvRest([vals |-> v, trans |-> t, err |-> e, pc |-> p], names)
    ELSE C26_MergeRest([vals |-> v, ini |-> ini, err |-> e, pc |-> p], names)

\* C26: the field values and the store a loop ends with are the same for
\* every order of its iterations: whichever name an iteration takes, the loop
\* still ends where it would have ended before, when it ends without an
\* error. The store written is encoded from these values into this store.
C26_OrderIndependent ==
    [][(/\ pc \in {"envloop", "merge"} /\ pc' = pc
        /\ C26_Outcome(pc, vals, trans, store.ini, err, pending).pc = pc
        /\ C26_Outcome(pc', vals', trans', store'.ini, err', pending').pc = pc)
       => C26_Outcome(pc', vals', trans', store'.ini, err', pending')
            = C26_Outcome(pc, vals, trans, store.ini, err, pending)]_vars
====
